---- MODULE Spec2Model ----
(* Model of src/src/task_management/babyagi_agent.py (BabyAgiAgent) and      *)
(* src/src/task_management/task_scheduler.py (TaskScheduler), with the two   *)
(* collaborators the agent calls: AIModel.generate_response and              *)
(* SelfLearningAI.retrieve_context / store_interaction.                      *)
EXTENDS Integers, Sequences, FiniteSets, Bags, TLC

\* ---------------------------------------------------------------- bounds
NumThreads == 2
\* budget of calls on the agent; run(iterations=n) takes n of it
MaxCalls == 4
MaxSchedCalls == 4
MaxWorkers == 3
MaxIterations == 3
MaxSegments == 2
\* the last second the scheduler's clock reaches
MaxTime == 2

Threads == 1..NumThreads
None == "None"   \* Python None where a string may stand
NoId == 0        \* Python None where a task id may stand
NoTime == 0      \* Python None where a timestamp may stand
NoLock == 0
Stamp == 1       \* a reading of time.time() at a completion

\* ------------------------------------------------------ program constants
DefaultPriority == 1
RefinePriority == 2
DefaultInterval == 2

\* priorities the callers pass: the default one and a raised one
Priorities == {DefaultPriority, 5}

VARIABLES
    task_queue,   \* self.task_queue: list of task dicts, in insertion order
    history,      \* self.history: list of history dicts
    is_running,   \* self.is_running
    lock,         \* self.lock: NoLock or the thread holding it
    uuid_count,   \* number of uuid4() values drawn so far
    calls,        \* calls made on the agent; a run counts as `iterations`
    pc,           \* position of each thread
    task,         \* execute_task local `task` (the id of the dict it refers to)
    arg_id,       \* execute_task parameter task_id
    paragraphs,   \* refine_tasks: the non-empty paragraphs not yet enqueued
    in_run,       \* TRUE while the thread is inside run()
    is_async,     \* TRUE when the thread is the _run_thread of run_async
    iterations,   \* run parameter
    interval,     \* run parameter
    run_i,        \* run loop variable i
    results,      \* run local `results`
    new_task_ids, \* refine_tasks local `new_task_ids`
    ret,          \* value the current call hands back to its caller
    method,       \* the method the thread was called into, None when free
    generated,    \* TRUE once the thread's call has called the generator
    tasks,        \* TaskScheduler.tasks: list of job dicts
    running,      \* TaskScheduler.running
    dispatchers,  \* live threads in _run_tasks: a bag of [pc, k, wake, old]
    workers,      \* live threads in _execute_task: a bag of [job, pc, wake,
                  \* old]; `old` notes that a stop() came after the thread's
                  \* dispatch loop had started
    sched_calls,  \* number of calls made on the scheduler's public methods
    returned,     \* what each TaskScheduler.add_task call returned, in order
    clock,        \* the clock, in seconds
    registered,   \* per job of self.tasks, the second add_task appended it
    fired         \* per job, the second of its function's latest call

agentvars == <<task_queue, history, is_running, lock, uuid_count, calls,
               pc, task, arg_id, paragraphs, in_run, is_async, iterations,
               interval, run_i, results, new_task_ids, ret, method,
               generated>>

\* ------------------------------------------------------------ collaborators

\* a generator that lets the model's exception through
generate_response_raising(outcome, text) ==
    IF outcome = "model_error"
    THEN [raised |-> TRUE, kind |-> "apology", text |-> <<"text">>]
    ELSE [raised |-> FALSE, kind |-> "response", text |-> text]

\* AIModel.generate_response: every exception of the model is caught and an
\* apology string is returned instead; nothing is raised to the caller.
generate_response(outcome, text) ==
    IF outcome = "model_error"
    THEN [raised |-> FALSE, kind |-> "apology", text |-> <<"text">>]
    ELSE [raised |-> FALSE, kind |-> "response", text |-> text]

GenOutcomes == {"ok", "model_error"}

\* SelfLearningAI.retrieve_context: "" for an empty query; with the ChromaDB
\* collection present and no document found the code falls through to
\* self.fallback_memory, which __init__ never created: AttributeError.
retrieve_context(query, storage, found) ==
    IF query = "" THEN [raised |-> FALSE, context |-> ""]
    ELSE IF storage = "chromadb"
         THEN IF found THEN [raised |-> FALSE, context |-> "ctx"]
                       ELSE [raised |-> TRUE, context |-> None]
         ELSE IF found THEN [raised |-> FALSE, context |-> "ctx"]
                       ELSE [raised |-> FALSE, context |-> ""]

Backends == {"chromadb", "fallback"}

\* SelfLearningAI.store_interaction: every failure is caught; returns a bool.
store_interaction(query, resp, stored) ==
    IF query = "" \/ resp = "" THEN FALSE ELSE stored

\* ------------------------------------------------------------ task helpers

NewTask(id, objective, priority, created) ==
    [id |-> id, objective |-> objective, type |-> "general",
     priority |-> priority, status |-> "pending", created_at |-> created,
     completed_at |-> NoTime, result |-> None]

\* a descending sort that puts the later of two equal priorities first
RECURSIVE InsertDescUnstable(_, _)
InsertDescUnstable(sorted, x) ==
    IF sorted = <<>> THEN <<x>>
    ELSE IF Head(sorted).priority > x.priority
         THEN <<Head(sorted)>> \o InsertDescUnstable(Tail(sorted), x)
         ELSE <<x>> \o sorted

\* list.sort(key=priority, reverse=True): stable, descending.
RECURSIVE InsertDesc(_, _)
InsertDesc(sorted, x) ==
    IF sorted = <<>> THEN <<x>>
    ELSE IF Head(sorted).priority >= x.priority
         THEN <<Head(sorted)>> \o InsertDesc(Tail(sorted), x)
         ELSE <<x>> \o sorted

RECURSIVE SortByPriorityDesc(_)
SortByPriorityDesc(s) ==
    IF s = <<>> THEN <<>>
    ELSE InsertDesc(SortByPriorityDesc(SubSeq(s, 1, Len(s) - 1)), s[Len(s)])

PendingTasks(q) == SelectSeq(q, LAMBDA t: t.status = "pending")

\* a search by id that forgets the status test
FindByIdAnyStatus(q, id) ==
    LET hits == {k \in DOMAIN q : q[k].id = id}
    IN IF hits = {} THEN NoId
       ELSE q[CHOOSE k \in hits : \A j \in hits : k <= j].id

\* a search that takes the highest priority pending task whatever the id
FindByIdHighest(q, id) ==
    LET pending_tasks == SelectSeq(q, LAMBDA t: t.status = "pending")
    IN IF pending_tasks = <<>> THEN NoId
       ELSE SortByPriorityDesc(pending_tasks)[1].id

\* first dict with the given id whose status is pending, else NoId
FindById(q, id) ==
    LET hits == {k \in DOMAIN q : q[k].id = id /\ q[k].status = "pending"}
    IN IF hits = {} THEN NoId
       ELSE q[CHOOSE k \in hits : \A j \in hits : k <= j].id

\* highest priority pending task, else NoId
FindHighest(q) ==
    LET pending_tasks == PendingTasks(q)
    IN IF pending_tasks = <<>> THEN NoId
       ELSE SortByPriorityDesc(pending_tasks)[1].id

TaskOf(q, id) == q[CHOOSE k \in DOMAIN q : q[k].id = id]

\* str.strip() on one paragraph of the generator's text
Strip(s) ==
    IF s \in {"", " "} THEN "" ELSE IF s = "more " THEN "more" ELSE "text"

Segments == {"", " ", "text "}
Objectives == {"text"}

\* the generator's texts of one paragraph, as the list text.split("\n\n")
\* yields them
OneParagraph == {<<s>> : s \in Segments}

\* the generator's texts of up to MaxSegments paragraphs, over two different
\* non-empty paragraphs
ParagraphLists ==
    UNION {[1..n -> Segments \cup {"more "}] : n \in 1..MaxSegments}

\* the paragraphs stripped, the empty ones kept
AllStripped(ps) == [k \in DOMAIN ps |-> Strip(ps[k])]

\* [p.strip() for p in paragraphs if p.strip()]
NonEmptyStripped(ps) ==
    LET stripped == [k \in DOMAIN ps |-> Strip(ps[k])]
    IN SelectSeq(stripped, LAMBDA x : x # "")

\* a lock that never excludes anybody
CanAcquireAlways(l) == TRUE

\* threading.Lock: acquire succeeds only while nobody holds it
CanAcquire(l) == l = NoLock

\* ---------------------------------------------------------------- results
\* what a call hands to its caller: a returned value or a raised exception
NoValue == [raised |-> FALSE, value |-> None]
Value(v) == [raised |-> FALSE, value |-> v]
Exception == [raised |-> TRUE, value |-> None]

NotFoundResult ==
    [success |-> FALSE, task_id |-> NoId, result |-> None,
     error |-> "Task not found or not pending"]
NoPendingResult ==
    [success |-> FALSE, task_id |-> NoId, result |-> None,
     error |-> "No pending tasks"]
SuccessResult(id, resp) ==
    [success |-> TRUE, task_id |-> id, result |-> resp, error |-> None]
FailureResult(id) ==
    [success |-> FALSE, task_id |-> id, result |-> None, error |-> "Error"]

\* ------------------------------------------------------------------- Init
Init ==
    /\ task_queue = <<>>
    /\ history = <<>>
    /\ is_running = FALSE
    /\ lock = NoLock
    /\ uuid_count = 0
    /\ calls = 0
    /\ pc = [t \in Threads |-> "idle"]
    /\ task = [t \in Threads |-> NoId]
    /\ arg_id = [t \in Threads |-> NoId]
    /\ paragraphs = [t \in Threads |-> <<>>]
    /\ in_run = [t \in Threads |-> FALSE]
    /\ is_async = [t \in Threads |-> FALSE]
    /\ iterations = [t \in Threads |-> 0]
    /\ interval = [t \in Threads |-> 0]
    /\ run_i = [t \in Threads |-> 0]
    /\ results = [t \in Threads |-> <<>>]
    /\ new_task_ids = [t \in Threads |-> <<>>]
    /\ ret = [t \in Threads |-> NoValue]
    /\ method = [t \in Threads |-> None]
    /\ generated = [t \in Threads |-> FALSE]
    /\ tasks = <<>>
    /\ running = FALSE
    /\ dispatchers = EmptyBag
    /\ workers = EmptyBag
    /\ sched_calls = 0
    /\ returned = <<>>
    /\ clock = 1
    /\ registered = <<>>
    /\ fired = <<>>


clockvars == <<clock, registered, fired>>

schedvars == <<tasks, running, dispatchers, workers, sched_calls, returned,
               clockvars>>

callvars == <<in_run, is_async, iterations, interval>>

obsvars == <<method, generated>>

\* ------------------------------------------------------------------ calls
\* the thread that makes the next call: threads are interchangeable, so the
\* free thread with the lowest number stands for any free thread
Caller(t) ==
    /\ pc[t] = "idle"
    /\ \A u \in Threads : u < t => pc[u] # "idle"

\* the arguments of run and run_async: every length with the default
\* interval, and a run of two iterations with a negative interval
RunArgs == ((1..MaxIterations) \X {DefaultInterval}) \cup {<<2, -1>>}

\* -------------------------------------------------------------- add_task
\* BabyAgiAgent.add_task: uuid4(), then append the new dict under the lock.
add_task(q, id, objective, priority, now) ==
    Append(q, NewTask(id, objective, priority, now))

AddTaskCall(t, objective, priority) ==
    /\ calls < MaxCalls
    /\ calls' = calls + 1
    /\ CanAcquire(lock)
    /\ uuid_count' = uuid_count + 1
    /\ task_queue' = add_task(task_queue, uuid_count + 1, objective,
                              priority, uuid_count + 1)
    /\ UNCHANGED <<schedvars, obsvars, history, is_running, lock, pc, task,
                   arg_id, paragraphs, callvars, run_i, results,
                   new_task_ids, ret>>

AddTask(t) ==
    \E objective \in Objectives, priority \in Priorities :
        /\ Caller(t)
        /\ AddTaskCall(t, objective, priority)

\* add_task with any string for an objective, the empty one included
AddTaskAny(t) ==
    \E objective \in Objectives \cup {""}, priority \in Priorities :
        /\ Caller(t)
        /\ AddTaskCall(t, objective, priority)

\* the caller takes the returned value; the call's locals are gone
ReturnLocals(t) ==
    /\ pc' = [pc EXCEPT ![t] = "idle"]
    /\ ret' = [ret EXCEPT ![t] = NoValue]
    /\ method' = [method EXCEPT ![t] = None]
    /\ generated' = [generated EXCEPT ![t] = FALSE]
    /\ arg_id' = [arg_id EXCEPT ![t] = NoId]
    /\ is_async' = [is_async EXCEPT ![t] = FALSE]
    /\ iterations' = [iterations EXCEPT ![t] = 0]
    /\ interval' = [interval EXCEPT ![t] = 0]
    /\ run_i' = [run_i EXCEPT ![t] = 0]
    /\ results' = [results EXCEPT ![t] = <<>>]
    /\ UNCHANGED <<schedvars, task_queue, history, is_running, lock,
                   uuid_count, calls, task, paragraphs, in_run, new_task_ids>>

\* a call made from outside returns to its caller
Return(t) ==
    /\ pc[t] = "return"
    /\ ~is_async[t]
    /\ ReturnLocals(t)

\* _run_thread after its call of run: `if callback: callback(results)` with
\* the callback the caller supplied; ret holds the argument while it runs
RunThreadCallback(t) ==
    /\ pc[t] = "return"
    /\ is_async[t]
    /\ ~ret[t].raised
    /\ pc' = [pc EXCEPT ![t] = "callback"]
    /\ UNCHANGED <<schedvars, obsvars, task_queue, history, is_running,
                   lock, uuid_count, calls, task, arg_id, paragraphs,
                   callvars, run_i, results, new_task_ids, ret>>

\* _run_thread ends: after the callback, or with the exception run raised
RunThreadEnd(t) ==
    /\ \/ pc[t] = "callback"
       \/ pc[t] = "return" /\ is_async[t] /\ ret[t].raised
    /\ ReturnLocals(t)

\* -------------------------------------------------------------------- run
\* time.sleep raises ValueError for a negative length
sleep(seconds) == [raised |-> seconds < 0]

\* `if i > 0 and i % 2 == 0: self.refine_tasks()`
RefineDue(i) == i > 0 /\ i % 2 = 0

\* a loop that stops one turn early
LoopContinuesShort(i, n, flag) == i < n - 1

\* the loop condition: range(iterations) has a next value
LoopContinues(i, n, flag) == i < n

\* the end of one turn of the loop in run:
\* `if i < iterations - 1: time.sleep(interval)`, then the next i, or the
\* loop is over and the finally clause is next
AfterIteration(t) ==
    IF run_i[t] < iterations[t] - 1 /\ sleep(interval[t]).raised
    THEN /\ pc' = [pc EXCEPT ![t] = "run_finally"]
         /\ ret' = [ret EXCEPT ![t] = Exception]
         /\ run_i' = run_i
    ELSE /\ pc' = [pc EXCEPT ![t] =
                      IF LoopContinues(run_i[t] + 1, iterations[t], is_running)
                      THEN "run_top" ELSE "run_finally"]
         /\ ret' = ret
         /\ run_i' = [run_i EXCEPT ![t] = @ + 1]

\* ---------------------------------------------------------- execute_task
\* execute_task returns r. Inside run: results.append(result), then either
\* refine_tasks is called or the turn of the loop ends
ExecuteReturns(t, r) ==
    /\ task' = [task EXCEPT ![t] = NoId]
    /\ IF in_run[t]
       THEN /\ results' = [results EXCEPT ![t] = Append(@, r)]
            /\ IF RefineDue(run_i[t])
               THEN /\ pc' = [pc EXCEPT ![t] = "rf_check"]
                    /\ UNCHANGED <<ret, run_i>>
               ELSE AfterIteration(t)
       ELSE /\ pc' = [pc EXCEPT ![t] = "return"]
            /\ ret' = [ret EXCEPT ![t] = Value(r)]
            /\ UNCHANGED <<results, run_i>>

\* a search that goes on to pending_tasks[0] or to task["status"] without
\* testing that a task was found: IndexError or TypeError
ExecuteSelectUnchecked(t, id) ==
    LET found == IF id # NoId THEN FindById(task_queue, id)
                              ELSE FindHighest(task_queue)
    IN IF found = NoId
       THEN /\ lock' = NoLock
            /\ ret' = [ret EXCEPT ![t] = Exception]
            /\ pc' = [pc EXCEPT ![t] = IF in_run[t] THEN "run_finally"
                                                   ELSE "return"]
            /\ UNCHANGED <<task, results, run_i>>
       ELSE /\ lock' = t
            /\ task' = [task EXCEPT ![t] = found]
            /\ pc' = [pc EXCEPT ![t] = "ex_mark"]
            /\ UNCHANGED <<results, ret, run_i>>

\* `with self.lock:` is entered and the task is searched for: with none
\* found the block is left and the call returns, else the lock stays held
ExecuteSelect(t, id) ==
    LET found == IF id # NoId THEN FindById(task_queue, id)
                              ELSE FindHighest(task_queue)
    IN IF found = NoId
       THEN /\ lock' = NoLock
            /\ ExecuteReturns(t, IF id # NoId THEN NotFoundResult
                                              ELSE NoPendingResult)
       ELSE /\ lock' = t
            /\ task' = [task EXCEPT ![t] = found]
            /\ pc' = [pc EXCEPT ![t] = "ex_mark"]
            /\ UNCHANGED <<results, ret, run_i>>

\* the call of execute_task, up to the search under the lock
ExecuteTask(t) ==
    \E id \in {NoId} \cup 1..(uuid_count + 1) :
        /\ Caller(t)
        /\ calls < MaxCalls
        /\ calls' = calls + 1
        /\ CanAcquire(lock)
        /\ arg_id' = [arg_id EXCEPT ![t] = id]
        /\ ExecuteSelect(t, id)
        /\ /\ method' = [method EXCEPT ![t] = "execute_task"]
        /\ UNCHANGED <<schedvars, generated, task_queue,
                       history, is_running, uuid_count, paragraphs, callvars,
                       new_task_ids>>

\* a claim that takes the task out of the queue
MarkInProgressPop(q, id) == SelectSeq(q, LAMBDA d : d.id # id)

\* task["status"] = "in_progress" on the dict that `id` refers to
MarkInProgress(q, id) ==
    [k \in DOMAIN q |->
        IF q[k].id = id THEN [q[k] EXCEPT !.status = "in_progress"]
                        ELSE q[k]]

\* a claim that goes on to the external calls inside the `with` block
ExecuteMarkHolding(t) ==
    /\ pc[t] = "ex_mark"
    /\ task_queue' = MarkInProgress(task_queue, task[t])
    /\ lock' = lock
    /\ pc' = [pc EXCEPT ![t] = "ex_external"]
    /\ UNCHANGED <<schedvars, obsvars, history, is_running, uuid_count, calls,
                   task, arg_id, paragraphs, callvars, run_i, results,
                   new_task_ids, ret>>

\* task["status"] = "in_progress", then the lock is released
ExecuteMark(t) ==
    /\ pc[t] = "ex_mark"
    /\ task_queue' = MarkInProgress(task_queue, task[t])
    /\ lock' = NoLock
    /\ pc' = [pc EXCEPT ![t] = "ex_external"]
    /\ UNCHANGED <<schedvars, obsvars, history, is_running, uuid_count, calls,
                   task, arg_id, paragraphs, callvars, run_i, results,
                   new_task_ids, ret>>

\* the try block up to the second `with self.lock:`: retrieve_context, the
\* prompt, generate_response, store_interaction (its bool is ignored)
TryBlock(objective, storage, found, outcome, stored) ==
    LET context == retrieve_context(objective, storage, found)
        answer == generate_response(outcome, <<"text">>)
        saved == store_interaction("prompt", answer.kind, stored)
    IN IF context.raised \/ answer.raised
       THEN [raised |-> TRUE, response |-> None,
             generated |-> ~context.raised]
       ELSE [raised |-> FALSE, response |-> answer.kind,
             generated |-> TRUE]

\* what the try block can come to for a task with this objective
TryOutcomes(objective) ==
    {TryBlock(objective, storage, found, outcome, stored) :
        storage \in Backends, found \in BOOLEAN, outcome \in GenOutcomes,
        stored \in BOOLEAN}

MarkCompleted(q, id, resp, now) ==
    [k \in DOMAIN q |->
        IF q[k].id = id THEN [q[k] EXCEPT !.status = "completed",
                                          !.completed_at = now,
                                          !.result = resp]
                        ELSE q[k]]

\* an except branch that leaves the status as it is
MarkFailedNot(q, id) == q

MarkFailed(q, id) ==
    [k \in DOMAIN q |->
        IF q[k].id = id THEN [q[k] EXCEPT !.status = "failed",
                                          !.result = "Error"]
                        ELSE q[k]]

HistoryEntry(d) ==
    [task_id |-> d.id, objective |-> d.objective, result |-> d.result,
     completed_at |-> d.completed_at]

\* the calls made outside the lock, then, under the lock again, the success
\* branch (completed, history entry) or the except branch (failed)
ExecuteBody(t) ==
    /\ pc[t] = "ex_external"
    /\ CanAcquire(lock)
    /\ \E body \in TryOutcomes(TaskOf(task_queue, task[t]).objective) :
        /\ generated' = [generated EXCEPT ![t] = @ \/ body.generated]
        /\ IF body.raised
           THEN /\ task_queue' = MarkFailed(task_queue, task[t])
                /\ history' = history
                /\ ExecuteReturns(t, FailureResult(task[t]))
           ELSE /\ task_queue' = MarkCompleted(task_queue, task[t],
                                               body.response, Stamp)
                /\ history' = Append(history,
                                HistoryEntry(TaskOf(task_queue', task[t])))
                /\ ExecuteReturns(t, SuccessResult(task[t], body.response))
        /\ UNCHANGED <<schedvars, method, is_running, lock,
                       uuid_count, calls, arg_id, paragraphs, callvars,
                       new_task_ids>>

\* ------------------------------------------------- get_task, get_tasks
\* the copy of the first dict with this id, else None
get_task(q, id) ==
    IF \E k \in DOMAIN q : q[k].id = id THEN TaskOf(q, id) ELSE None

\* `if status:` the copies of the dicts with this status, else of all
get_tasks(q, wanted) ==
    IF wanted = None THEN q ELSE SelectSeq(q, LAMBDA d : d.status = wanted)

StatusFilters == {None, "pending", "in_progress", "completed", "failed"}

\* a reading call: its whole body is one `with self.lock:` block
ReadCall(t, name, value) ==
    /\ calls < MaxCalls
    /\ calls' = calls + 1
    /\ CanAcquire(lock)
    /\ pc' = [pc EXCEPT ![t] = "return"]
    /\ ret' = [ret EXCEPT ![t] = Value(value)]
    /\ method' = [method EXCEPT ![t] = name]
    /\ UNCHANGED <<schedvars, generated, task_queue, history, is_running,
                   lock, uuid_count, task, arg_id, paragraphs, callvars,
                   run_i, results, new_task_ids>>

GetTask(t) ==
    \E id \in 1..(uuid_count + 1) :
        /\ Caller(t)
        /\ ReadCall(t, "get_task", get_task(task_queue, id))

GetTasks(t) ==
    \E wanted \in StatusFilters :
        /\ Caller(t)
        /\ ReadCall(t, "get_tasks", get_tasks(task_queue, wanted))

\* ---------------------------------------------------------- refine_tasks
\* refine_tasks hands back `ids`; run ignores the value and ends the turn
RefineReturns(t, ids) ==
    /\ new_task_ids' = [new_task_ids EXCEPT ![t] = <<>>]
    /\ IF in_run[t]
       THEN AfterIteration(t)
       ELSE /\ pc' = [pc EXCEPT ![t] = "return"]
            /\ ret' = [ret EXCEPT ![t] = Value(ids)]
            /\ run_i' = run_i

\* an exception leaves refine_tasks; inside run it reaches the finally clause
RefineRaises(t) ==
    /\ new_task_ids' = [new_task_ids EXCEPT ![t] = <<>>]
    /\ ret' = [ret EXCEPT ![t] = Exception]
    /\ pc' = [pc EXCEPT ![t] = IF in_run[t] THEN "run_finally" ELSE "return"]
    /\ run_i' = run_i

\* response = generate_response(prompt), paragraphs = response.split("\n\n"),
\* and the paragraphs that pass `if paragraph.strip()`, stripped
GeneratedParagraphs(outcome, text) ==
    LET r == generate_response(outcome, text)
    IN [raised |-> r.raised, paragraphs |-> NonEmptyStripped(r.text)]

RefineOutcomes ==
    {GeneratedParagraphs(outcome, text) :
        outcome \in GenOutcomes, text \in OneParagraph}

\* the same over the texts of several paragraphs
RefineOutcomesLong ==
    {GeneratedParagraphs(outcome, text) :
        outcome \in GenOutcomes, text \in ParagraphLists}

\* a refine_tasks without the test of the history
RefinePromptAlways(t, r) ==
    /\ generated' = [generated EXCEPT ![t] = TRUE]
    /\ IF r.raised
       THEN /\ RefineRaises(t)
            /\ paragraphs' = paragraphs
       ELSE IF r.paragraphs = <<>>
            THEN /\ RefineReturns(t, <<>>)
                 /\ paragraphs' = paragraphs
            ELSE /\ paragraphs' = [paragraphs EXCEPT ![t] = r.paragraphs]
                 /\ pc' = [pc EXCEPT ![t] = "rf_add"]
                 /\ UNCHANGED <<new_task_ids, ret, run_i>>

\* `if not self.history: return []`; else the prompt from self.history[-5:]
\* and the generator's answer r; with no paragraph to add the call returns []
RefinePrompt(t, r) ==
    IF history = <<>>
    THEN /\ RefineReturns(t, <<>>)
         /\ UNCHANGED <<paragraphs, generated>>
    ELSE /\ generated' = [generated EXCEPT ![t] = TRUE]
         /\ IF r.raised
            THEN /\ RefineRaises(t)
                 /\ paragraphs' = paragraphs
            ELSE IF r.paragraphs = <<>>
                 THEN /\ RefineReturns(t, <<>>)
                      /\ paragraphs' = paragraphs
                 ELSE /\ paragraphs' = [paragraphs EXCEPT ![t] =
                                           r.paragraphs]
                      /\ pc' = [pc EXCEPT ![t] = "rf_add"]
                      /\ UNCHANGED <<new_task_ids, ret, run_i>>

\* refine_tasks called from outside, the generator answering r; every
\* add_task the call is going to make takes one of the budget of calls
RefineTasksCall(t, r) ==
    /\ calls + Len(r.paragraphs) <= MaxCalls
    /\ calls < MaxCalls
    /\ calls' = IF r.paragraphs = <<>> THEN calls + 1
                ELSE calls + Len(r.paragraphs)
    /\ RefinePrompt(t, r)
    /\ method' = [method EXCEPT ![t] = "refine_tasks"]
    /\ UNCHANGED <<schedvars, task_queue, history,
                   is_running, lock, uuid_count, task, arg_id, callvars,
                   results>>

RefineTasks(t) ==
    \E r \in RefineOutcomes :
        /\ Caller(t)
        /\ RefineTasksCall(t, r)

\* refine_tasks with a generator's text of several paragraphs
RefineTasksLong(t) ==
    \E r \in RefineOutcomesLong :
        /\ Caller(t)
        /\ RefineTasksCall(t, r)

\* refine_tasks called by run
RefineCheck(t) ==
    \E r \in RefineOutcomes :
        /\ pc[t] = "rf_check"
        /\ RefinePrompt(t, r)
        /\ UNCHANGED <<schedvars, method, task_queue, history,
                       is_running, lock, uuid_count, calls, task, arg_id,
                       callvars, results>>

\* one turn of `for i, paragraph in enumerate(paragraphs)` that passes
\* `if paragraph.strip()`: add_task(paragraph.strip(), priority=2); after
\* the last one, `return new_task_ids`
RefineAdd(t) ==
    /\ pc[t] = "rf_add"
    /\ CanAcquire(lock)
    /\ uuid_count' = uuid_count + 1
    /\ task_queue' = add_task(task_queue, uuid_count + 1,
                              Head(paragraphs[t]), RefinePriority,
                              uuid_count + 1)
    /\ paragraphs' = [paragraphs EXCEPT ![t] = Tail(@)]
    /\ IF Tail(paragraphs[t]) = <<>>
       THEN RefineReturns(t, Append(new_task_ids[t], uuid_count + 1))
       ELSE /\ new_task_ids' = [new_task_ids EXCEPT ![t] =
                                   Append(@, uuid_count + 1)]
            /\ UNCHANGED <<pc, ret, run_i>>
    /\ UNCHANGED <<schedvars, obsvars, history, is_running, lock, calls, task,
                   arg_id, callvars, results>>

\* -------------------------------------------------------------------- run
\* `if self.is_running: return []`
RunCheck(t) ==
    IF is_running
    THEN /\ pc' = [pc EXCEPT ![t] = "return"]
         /\ ret' = [ret EXCEPT ![t] = Value(<<>>)]
    ELSE /\ pc' = [pc EXCEPT ![t] = "run_set"]
         /\ ret' = ret

\* run called from outside, up to its test of the flag; `calls` counts the
\* execute_task calls the run is asked to make
Run(t) ==
    \E args \in RunArgs :
        /\ Caller(t)
        /\ calls + args[1] <= MaxCalls
        /\ calls' = calls + args[1]
        /\ iterations' = [iterations EXCEPT ![t] = args[1]]
        /\ interval' = [interval EXCEPT ![t] = args[2]]
        /\ RunCheck(t)
        /\ /\ method' = [method EXCEPT ![t] = "run"]
        /\ UNCHANGED <<schedvars, generated, task_queue,
                       history, is_running, lock, uuid_count, task, arg_id,
                       paragraphs, in_run, is_async, run_i, results,
                       new_task_ids>>

\* _run_thread, started by run_async, calls run
RunThread(t) ==
    /\ pc[t] = "run_check"
    /\ RunCheck(t)
    /\ UNCHANGED <<schedvars, obsvars, task_queue, history, is_running, lock,
                   uuid_count, calls, task, arg_id, paragraphs, callvars,
                   run_i, results, new_task_ids>>

\* `self.is_running = True`, `results = []`, and the try block is entered
RunSet(t) ==
    /\ pc[t] = "run_set"
    /\ is_running' = TRUE
    /\ in_run' = [in_run EXCEPT ![t] = TRUE]
    /\ results' = [results EXCEPT ![t] = <<>>]
    /\ run_i' = [run_i EXCEPT ![t] = 0]
    /\ pc' = [pc EXCEPT ![t] =
                 IF LoopContinues(0, iterations[t], is_running)
                 THEN "run_top" ELSE "run_finally"]
    /\ UNCHANGED <<schedvars, obsvars, task_queue, history, lock, uuid_count,
                   calls, task, arg_id, paragraphs, is_async, iterations,
                   interval, new_task_ids, ret>>

\* a turn of `for i in range(iterations)`: execute_task() is called and
\* enters its `with self.lock:`
RunTop(t) ==
    /\ pc[t] = "run_top"
    /\ CanAcquire(lock)
    /\ ExecuteSelect(t, NoId)
    /\ UNCHANGED <<schedvars, obsvars, task_queue, history, is_running,
                   uuid_count, calls, arg_id, paragraphs, callvars,
                   new_task_ids>>

\* the flag cleared after the loop instead of in a finally clause
ClearFlagOnReturnOnly(flag, raised) == IF raised THEN flag ELSE FALSE

\* the value of is_running after the finally clause
ClearFlag(flag, raised) == FALSE

\* `finally: self.is_running = False`, then `return results`, or the
\* exception goes on to the caller
RunFinally(t) ==
    /\ pc[t] = "run_finally"
    /\ is_running' = ClearFlag(is_running, ret[t].raised)
    /\ in_run' = [in_run EXCEPT ![t] = FALSE]
    /\ ret' = [ret EXCEPT ![t] = IF @.raised THEN Exception
                                            ELSE Value(results[t])]
    /\ pc' = [pc EXCEPT ![t] = "return"]
    /\ UNCHANGED <<schedvars, obsvars, task_queue, history, lock, uuid_count,
                   calls, task, arg_id, paragraphs, is_async, iterations,
                   interval, run_i, results, new_task_ids>>

\* run_async: `if self.is_running: return False`, else a new daemon thread
\* starts _run_thread, which calls run
RunAsync(t) ==
    \E args \in RunArgs :
        /\ Caller(t)
        /\ calls + args[1] <= MaxCalls
        /\ calls' = calls + args[1]
        /\ IF is_running
           THEN UNCHANGED <<pc, is_async, iterations, interval, method>>
           ELSE \E u \in Threads \ {t} :
                    /\ pc[u] = "idle"
                    /\ \A v \in Threads \ {t} : v < u => pc[v] # "idle"
                    /\ pc' = [pc EXCEPT ![u] = "run_check"]
                    /\ is_async' = [is_async EXCEPT ![u] = TRUE]
                    /\ iterations' = [iterations EXCEPT ![u] = args[1]]
                    /\ interval' = [interval EXCEPT ![u] = args[2]]
                    /\ method' = [method EXCEPT ![u] = "run"]
        /\ UNCHANGED <<schedvars, generated, task_queue,
                       history, is_running, lock, uuid_count, task, arg_id,
                       paragraphs, in_run, run_i, results, new_task_ids, ret>>

\* stop: `if not self.is_running: return False`, else the flag is cleared
Stop(t) ==
    /\ Caller(t)
    /\ calls < MaxCalls
    /\ calls' = calls + 1
    /\ is_running' = FALSE
    /\ UNCHANGED <<schedvars, obsvars, task_queue, history, lock, uuid_count,
                   pc, task, arg_id, paragraphs, callvars, run_i, results,
                   new_task_ids, ret>>

Next ==
    \E t \in Threads :
        \/ AddTask(t)
        \/ ExecuteTask(t)
        \/ ExecuteMark(t)
        \/ ExecuteBody(t)
        \/ RefineTasks(t)
        \/ RefineCheck(t)
        \/ RefineAdd(t)
        \/ Run(t)
        \/ RunThread(t)
        \/ RunSet(t)
        \/ RunTop(t)
        \/ RunFinally(t)
        \/ RunAsync(t)
        \/ Stop(t)
        \/ Return(t)
        \/ RunThreadCallback(t)
        \/ RunThreadEnd(t)

vars == <<agentvars, schedvars>>

Spec == Init /\ [][Next]_vars

\* add_task with any objective, and execute_task
ObjectiveNext ==
    \E t \in Threads :
        \/ AddTaskAny(t)
        \/ ExecuteTask(t)
        \/ ExecuteMark(t)
        \/ ExecuteBody(t)
        \/ Return(t)

ObjectiveSpec == Init /\ [][ObjectiveNext]_vars

\* add_task, execute_task and refine_tasks over the longer texts
RefineNext ==
    \E t \in Threads :
        \/ AddTask(t)
        \/ ExecuteTask(t)
        \/ ExecuteMark(t)
        \/ ExecuteBody(t)
        \/ RefineTasksLong(t)
        \/ RefineAdd(t)
        \/ Return(t)

RefineSpec == Init /\ [][RefineNext]_vars

\* add_task, execute_task and the two reading calls
ReadNext ==
    \E t \in Threads :
        \/ AddTask(t)
        \/ ExecuteTask(t)
        \/ ExecuteMark(t)
        \/ ExecuteBody(t)
        \/ GetTask(t)
        \/ GetTasks(t)
        \/ Return(t)

ReadSpec == Init /\ [][ReadNext]_vars

\* ----------------------------------------------------------- TaskScheduler
SchedIntervals == {1, 5}
\* the callables registered: one that returns, one that raises on every call
Functions == {"returns", "raises"}

Job(function, seconds, name) ==
    [function |-> function, interval |-> seconds, name |-> name]

\* TaskScheduler.add_task: appends the job dict; the method has no return
\* statement, so the caller gets None
SchedAddJob(function, seconds) ==
    /\ sched_calls' = sched_calls + 1
    /\ tasks' = Append(tasks, Job(function, seconds, "Unnamed Task"))
    /\ returned' = Append(returned, None)
    /\ registered' = Append(registered, clock)
    /\ fired' = Append(fired, NoTime)
    /\ UNCHANGED <<agentvars, running, dispatchers, workers, clock>>

SchedAddTask ==
    \E function \in Functions, seconds \in SchedIntervals :
        /\ sched_calls < MaxSchedCalls
        /\ SchedAddJob(function, seconds)

\* add_task of a job with an interval of one second: the first job
\* registered blocks for a while, the later ones return at once
SchedAddSlow ==
    /\ sched_calls < MaxSchedCalls
    /\ SchedAddJob(IF tasks = <<>> THEN "blocks" ELSE "returns", 1)

\* add_task of a job that returns and has an interval of one second
SchedAddReturning ==
    /\ sched_calls < MaxSchedCalls
    /\ SchedAddJob("returns", 1)

\* TaskScheduler.start: running = True and a new thread enters _run_tasks
SchedStart ==
    /\ sched_calls < MaxSchedCalls
    /\ sched_calls' = sched_calls + 1
    /\ running' = TRUE
    /\ dispatchers' = dispatchers (+)
                          SetToBag({[pc |-> "while", k |-> 0,
                                     wake |-> NoTime, old |-> FALSE]})
    /\ UNCHANGED <<agentvars, tasks, workers, returned, clockvars>>

Replace(bag, e, new) == (bag (-) SetToBag({e})) (+) SetToBag({new})

\* the threads of a bag, each noted as having seen a stop()
MarkOld(bag) ==
    LET marked == {[e EXCEPT !.old = TRUE] : e \in BagToSet(bag)}
    IN [x \in marked |->
           CopiesIn(x, bag) + CopiesIn([x EXCEPT !.old = FALSE], bag)]

\* TaskScheduler.stop: running = False; the live threads are noted
SchedStop ==
    /\ sched_calls < MaxSchedCalls
    /\ sched_calls' = sched_calls + 1
    /\ running' = FALSE
    /\ dispatchers' = MarkOld(dispatchers)
    /\ workers' = MarkOld(workers)
    /\ UNCHANGED <<agentvars, tasks, returned, clockvars>>

\* a second passes
Tick ==
    /\ clock < MaxTime
    /\ clock' = clock + 1
    /\ UNCHANGED <<agentvars, tasks, running, dispatchers, workers,
                   sched_calls, returned, registered, fired>>

\* _run_tasks, `while self.running:`: the for loop starts, or the thread ends
DispatchWhile ==
    \E d \in BagToSet(dispatchers) :
        /\ d.pc = "while"
        /\ dispatchers' = IF running
                          THEN Replace(dispatchers, d,
                                       [d EXCEPT !.pc = "for", !.k = 1])
                          ELSE dispatchers (-) SetToBag({d})
        /\ UNCHANGED <<agentvars, tasks, running, workers, sched_calls,
                       returned, clockvars>>

\* _run_tasks, one turn of `for task in self.tasks:` starts a thread in
\* _execute_task; after the last one, time.sleep(1) begins
DispatchFor ==
    \E d \in BagToSet(dispatchers) :
        /\ d.pc = "for"
        /\ IF d.k <= Len(tasks)
           THEN /\ BagCardinality(workers) < MaxWorkers
                /\ workers' = workers (+)
                                 SetToBag({[job |-> d.k, pc |-> "while",
                                            wake |-> NoTime, old |-> d.old]})
                /\ dispatchers' = Replace(dispatchers, d,
                                          [d EXCEPT !.k = d.k + 1])
           ELSE /\ workers' = workers
                /\ dispatchers' = Replace(dispatchers, d,
                                          [d EXCEPT !.pc = "sleep", !.k = 0,
                                                    !.wake = clock + 1])
        /\ UNCHANGED <<agentvars, tasks, running, sched_calls, returned,
                       clockvars>>

\* _run_tasks, time.sleep(1) is over: back to the while
DispatchSleep ==
    \E d \in BagToSet(dispatchers) :
        /\ d.pc = "sleep"
        /\ clock >= d.wake
        /\ dispatchers' = Replace(dispatchers, d,
                                  [d EXCEPT !.pc = "while",
                                            !.wake = NoTime])
        /\ UNCHANGED <<agentvars, tasks, running, workers, sched_calls,
                       returned, clockvars>>

\* a worker loop that never looks at self.running
WorkerWhileTrue ==
    \E w \in BagToSet(workers) :
        /\ w.pc = "while"
        /\ workers' = Replace(workers, w, [w EXCEPT !.pc = "call"])
        /\ UNCHANGED <<agentvars, tasks, running, dispatchers, sched_calls,
                       returned, clockvars>>

\* _execute_task, `while self.running:`: the call is next, or the thread ends
WorkerWhile ==
    \E w \in BagToSet(workers) :
        /\ w.pc = "while"
        /\ workers' = IF running
                      THEN Replace(workers, w, [w EXCEPT !.pc = "call"])
                      ELSE workers (-) SetToBag({w})
        /\ UNCHANGED <<agentvars, tasks, running, dispatchers, sched_calls,
                       returned, clockvars>>

\* a call that waits until no other worker is inside its job's function
WorkerCallOfAlone(w) ==
    /\ \A v \in BagToSet(workers) : v.pc # "in_call"
    /\ fired' = [fired EXCEPT ![w.job] = clock]
    /\ workers' = IF tasks[w.job].function = "raises"
                  THEN workers (-) SetToBag({w})
                  ELSE IF tasks[w.job].function = "blocks"
                       THEN Replace(workers, w, [w EXCEPT !.pc = "in_call"])
                       ELSE Replace(workers, w,
                                    [w EXCEPT !.pc = "sleep",
                                              !.wake = clock +
                                                  tasks[w.job].interval])
    /\ UNCHANGED <<agentvars, tasks, running, dispatchers, sched_calls,
                   returned, clock, registered>>

\* task["function"]() by the worker w: an exception is caught nowhere and
\* ends the thread; a function that blocks keeps the worker inside it;
\* otherwise time.sleep(task["interval"]) begins
WorkerCallOf(w) ==
    /\ fired' = [fired EXCEPT ![w.job] = clock]
    /\ workers' = IF tasks[w.job].function = "raises"
                  THEN workers (-) SetToBag({w})
                  ELSE IF tasks[w.job].function = "blocks"
                       THEN Replace(workers, w, [w EXCEPT !.pc = "in_call"])
                       ELSE Replace(workers, w,
                                    [w EXCEPT !.pc = "sleep",
                                              !.wake = clock +
                                                  tasks[w.job].interval])
    /\ UNCHANGED <<agentvars, tasks, running, dispatchers, sched_calls,
                   returned, clock, registered>>

\* _execute_task, task["function"]()
WorkerCall ==
    \E w \in BagToSet(workers) :
        /\ w.pc = "call"
        /\ WorkerCallOf(w)

\* a function that blocked returns: time.sleep(task["interval"]) begins
WorkerReturn ==
    \E w \in BagToSet(workers) :
        /\ w.pc = "in_call"
        /\ workers' = Replace(workers, w,
                              [w EXCEPT !.pc = "sleep",
                                        !.wake = clock +
                                            tasks[w.job].interval])
        /\ UNCHANGED <<agentvars, tasks, running, dispatchers, sched_calls,
                       returned, clockvars>>

\* _execute_task, time.sleep(task["interval"]) is over
WorkerSleep ==
    \E w \in BagToSet(workers) :
        /\ w.pc = "sleep"
        /\ clock >= w.wake
        /\ workers' = Replace(workers, w,
                              [w EXCEPT !.pc = "while", !.wake = NoTime])
        /\ UNCHANGED <<agentvars, tasks, running, dispatchers, sched_calls,
                       returned, clockvars>>

SchedNext ==
    \/ SchedAddTask
    \/ SchedStart
    \/ SchedStop
    \/ Tick
    \/ DispatchWhile
    \/ DispatchFor
    \/ DispatchSleep
    \/ WorkerWhile
    \/ WorkerCall
    \/ WorkerSleep

SchedSpec == Init /\ [][SchedNext]_vars

\* the scheduler with jobs that return and have an interval of one second
ReturningNext ==
    \/ SchedAddReturning
    \/ SchedStart
    \/ SchedStop
    \/ Tick
    \/ DispatchWhile
    \/ DispatchFor
    \/ DispatchSleep
    \/ WorkerWhile
    \/ WorkerCall
    \/ WorkerSleep

ReturningSpec == Init /\ [][ReturningNext]_vars

\* the scheduler, started and not stopped, with jobs that block
SlowNext ==
    \/ SchedAddSlow
    \/ SchedStart
    \/ Tick
    \/ DispatchWhile
    \/ DispatchFor
    \/ DispatchSleep
    \/ WorkerWhile
    \/ WorkerCall
    \/ WorkerReturn
    \/ WorkerSleep

SlowSpec == Init /\ [][SlowNext]_vars

\* ================================================================ claims
Terminal == {"completed", "failed"}
IdsOf(q) == {q[k].id : k \in DOMAIN q}
Claimers(id) == {t \in Threads : task[t] = id}

\* C1: no task is claimed by two execute_task calls: a task's status becomes
\* in_progress only from pending, only in a step taken while the lock is
\* held, by the one thread that holds the lock and no other thread refers to
\* that task; a task that left pending never is pending again, so the
\* transition happens at most once per task.
C1_ClaimStep ==
    \A k \in DOMAIN task_queue :
        /\ k \in DOMAIN task_queue'
        /\ (task_queue[k].status # "pending"
                => task_queue'[k].status # "pending")
        /\ (task_queue[k].status # "in_progress"
            /\ task_queue'[k].status = "in_progress")
                => /\ task_queue[k].status = "pending"
                   /\ lock \in Threads
                   /\ Claimers(task_queue[k].id) = {lock}
C1_ClaimedOnce == [][C1_ClaimStep]_vars

\* one call is past its claim while another call holds the lock for its own
C1_Witness ==
    \E t1, t2 \in Threads :
        /\ t1 # t2
        /\ pc[t1] = "ex_external"
        /\ pc[t2] = "ex_mark"
        /\ lock = t2

\* C2: execute_task() without a task_id claims a pending task of maximum
\* priority, and among the pending tasks of that priority the one created
\* first.
C2_MarkStep ==
    \A t \in Threads :
        (pc[t] = "ex_mark" /\ pc'[t] = "ex_external" /\ arg_id[t] = NoId)
            => LET sel == TaskOf(task_queue, task[t])
               IN /\ sel.status = "pending"
                  /\ TaskOf(task_queue', task[t]).status = "in_progress"
                  /\ \A k \in DOMAIN task_queue :
                        task_queue[k].status = "pending"
                            => \/ task_queue[k].priority < sel.priority
                               \/ /\ task_queue[k].priority = sel.priority
                                  /\ task_queue[k].created_at >= sel.created_at
C2_HighestEarliest == [][C2_MarkStep]_vars

\* a task was claimed without a task_id while another task of the same
\* priority is still pending
C2_Witness ==
    \E t \in Threads :
        /\ pc[t] = "ex_external"
        /\ arg_id[t] = NoId
        /\ \E k \in DOMAIN task_queue :
              /\ task_queue[k].status = "pending"
              /\ task_queue[k].priority
                     = TaskOf(task_queue, task[t]).priority

\* C3: a task's status only moves pending -> in_progress -> completed or
\* failed, whatever operation takes the step.
C3_StatusStep ==
    \A k \in DOMAIN task_queue :
        /\ k \in DOMAIN task_queue'
        /\ task_queue'[k].id = task_queue[k].id
        /\ \/ task_queue'[k].status = task_queue[k].status
           \/ <<task_queue[k].status, task_queue'[k].status>> \in
                  {<<"pending", "in_progress">>,
                   <<"in_progress", "completed">>,
                   <<"in_progress", "failed">>}
C3_StatusMachine == [][C3_StatusStep]_vars

\* an execute_task(task_id) call has searched for a task that already is
\* completed or failed, and returns without it
C3_Witness ==
    \E t \in Threads, k \in DOMAIN task_queue :
        /\ pc[t] = "return"
        /\ arg_id[t] = task_queue[k].id
        /\ task_queue[k].status \in Terminal
        /\ ret[t] = Value(NotFoundResult)

\* C4 (as claimed): at most one thread is inside the loop of run at a time.
C4_SingleFlight == Cardinality({t \in Threads : in_run[t]}) <= 1

\* C5 (as claimed): a run loop that finds the flag cleared at the top of an
\* iteration leaves the loop instead of calling execute_task again.
C5_StopStep ==
    \A t \in Threads :
        (pc[t] = "run_top" /\ ~is_running
         /\ <<pc'[t], results'[t]>> # <<pc[t], results[t]>>)
            => /\ pc'[t] = "run_finally"
               /\ results'[t] = results[t]
C5_StopEndsLoop == [][C5_StopStep]_vars

\* C6 (as claimed): a task whose generator call failed ends failed.
C6_GeneratorFailureFails ==
    \A k \in DOMAIN task_queue :
        task_queue[k].result = "apology" => task_queue[k].status = "failed"

\* C7: no generator failure ends the run loop: when run leaves through its
\* finally clause it has made all `iterations` execute_task calls and returns
\* their results, unless time.sleep rejected a negative interval.
C7_ExitStep ==
    \A t \in Threads :
        (pc[t] = "run_finally" /\ pc'[t] = "return")
            => /\ ret[t].raised => interval[t] < 0
               /\ ~ret[t].raised => Len(results[t]) = iterations[t]
C7_LoopSurvivesGenerator == [][C7_ExitStep]_vars

\* a run is ending normally with all its results, one of them from an
\* execute_task whose generator call failed
C7_Witness ==
    \E t \in Threads :
        /\ pc[t] = "run_finally"
        /\ ~ret[t].raised
        /\ iterations[t] = MaxIterations
        /\ Len(results[t]) = iterations[t]
        /\ \E k \in DOMAIN results[t] : results[t][k].result = "apology"

\* C8: the step that takes a run call out through its finally clause leaves
\* is_running false, with or without an exception; and is_running is true
\* only while some thread is inside the loop of run.
C8_FinallyStep ==
    \A t \in Threads :
        (pc[t] = "run_finally" /\ pc'[t] # pc[t]) => ~is_running'
C8_FlagCleared ==
    /\ [](is_running => \E t \in Threads : in_run[t])
    /\ [][C8_FinallyStep]_vars

\* a run call has ended with an exception and the flag is clear
C8_Witness ==
    \E t \in Threads :
        /\ pc[t] = "return"
        /\ iterations[t] > 0
        /\ ret[t].raised
        /\ ~is_running

\* C9 (as claimed): the ids in the queue are pairwise different and so are
\* the ids the scheduler's add_task returned.
C9_UniqueIds ==
    /\ \A i, j \in DOMAIN task_queue :
          i # j => task_queue[i].id # task_queue[j].id
    /\ \A i, j \in DOMAIN returned : i # j => returned[i] # returned[j]

\* C10: no step removes a task or changes a task's id; every task is in
\* exactly one of the four buckets, so a step of execute_task leaves the
\* bucket total as it was.
BucketTotal(q) ==
    LET Bucket(s) == Cardinality({k \in DOMAIN q : q[k].status = s})
    IN Bucket("pending") + Bucket("in_progress") + Bucket("completed")
           + Bucket("failed")
C10_Step ==
    /\ IdsOf(task_queue) \subseteq IdsOf(task_queue')
    /\ BucketTotal(task_queue) = Len(task_queue)
    /\ BucketTotal(task_queue') = Len(task_queue')
    /\ (\E t \in Threads :
           \/ pc[t] # "ex_mark" /\ pc'[t] = "ex_mark"
           \/ pc[t] \in {"ex_mark", "ex_external"} /\ pc'[t] # pc[t])
          => BucketTotal(task_queue') = BucketTotal(task_queue)
C10_NothingRemoved == [][C10_Step]_vars

\* a task ended while another one is still in the queue
C10_Witness ==
    /\ Len(task_queue) >= 2
    /\ \E k \in DOMAIN task_queue : task_queue[k].status \in Terminal

\* C11: an execute_task call that claims nothing (no task pending, or the
\* task_id unknown or not pending) returns a result with success false and
\* an error text, raises nothing, and its step leaves the queue and the
\* history as they were; so does a call made by run.
C11_Step ==
    \A t \in Threads :
        /\ (pc[t] = "idle" /\ method'[t] = "execute_task"
             /\ pc'[t] # "ex_mark")
               => /\ pc'[t] = "return"
                  /\ ~ret'[t].raised
                  /\ ~ret'[t].value.success
                  /\ ret'[t].value.error # None
                  /\ task_queue' = task_queue
                  /\ history' = history
        /\ (pc[t] = "run_top" /\ results'[t] # results[t])
               => /\ ~results'[t][Len(results'[t])].success
                  /\ results'[t][Len(results'[t])].error # None
                  /\ task_queue' = task_queue
                  /\ history' = history
C11_NoClaimNoChange == [][C11_Step]_vars

\* execute_task() has returned "No pending tasks" although the queue holds
\* tasks, none of them pending
C11_Witness ==
    \E t \in Threads :
        /\ pc[t] = "return"
        /\ method[t] = "execute_task"
        /\ arg_id[t] = NoId
        /\ ret[t] = Value(NoPendingResult)
        /\ task_queue # <<>>
        /\ \A k \in DOMAIN task_queue : task_queue[k].status # "pending"

\* C12 (as claimed): the history holds exactly one entry for every task
\* that is completed or failed, and none for a task that is pending or
\* in_progress.
EntriesFor(id) == Cardinality({h \in DOMAIN history : history[h].task_id = id})
C12_OneEntryPerTerminal ==
    \A k \in DOMAIN task_queue :
        EntriesFor(task_queue[k].id)
            = IF task_queue[k].status \in Terminal THEN 1 ELSE 0

\* C13 (as claimed): add_task with an empty objective is rejected and leaves
\* the queue as it was, so no task with an empty objective is in the queue.
C13_EmptyObjectiveRejected ==
    \A k \in DOMAIN task_queue : task_queue[k].objective # ""

\* C14 (as claimed): every run that was not rejected returns a list of
\* exactly `iterations` results.
C14_ReturnStep ==
    \A t \in Threads :
        (pc[t] = "run_finally" /\ pc'[t] = "return")
            => /\ ~ret'[t].raised
               /\ Len(ret'[t].value) = iterations[t]
C14_RunStep ==
    \A t \in Threads :
        /\ (in_run[t] /\ results'[t] # results[t])
               => /\ Len(results[t]) = run_i[t]
                  /\ Len(results'[t]) = run_i[t] + 1
                  /\ SubSeq(results'[t], 1, run_i[t]) = results[t]
        /\ (pc[t] = "run_finally" /\ pc'[t] = "return" /\ interval[t] >= 0)
               => /\ ~ret'[t].raised
                  /\ ret'[t].value = results[t]
                  /\ Len(results[t]) = iterations[t]
C15_CadenceStep ==
    \A t \in Threads :
        (in_run[t] /\ results'[t] # results[t])
            => (pc'[t] = "rf_check" <=> Len(results'[t]) % 2 = 0)
C15_RefineAfterEverySecond == [][C15_CadenceStep]_vars

\* C16 (as claimed): the callback of a run_async call that returned True is
\* given the results of the run that call launched, one per iteration, never
\* the empty list of a rejected run.
C16_CallbackGetsResults ==
    \A t \in Threads :
        pc[t] = "callback" => Len(ret[t].value) = iterations[t]

\* C17: a refine_tasks call that finds the history empty returns the empty
\* list in that step, without a call of the generator and without a new
\* task; called by run, it ends the turn of the loop the same way.
C17_EmptyHistoryStep ==
    \A t \in Threads :
        /\ (pc[t] = "idle" /\ method'[t] = "refine_tasks"
             /\ history = <<>>)
               => /\ pc'[t] = "return"
                  /\ ~ret'[t].raised
                  /\ ret'[t].value = <<>>
                  /\ ~generated'[t]
                  /\ task_queue' = task_queue
        /\ (pc[t] = "rf_check" /\ pc'[t] # "rf_check" /\ history = <<>>)
               => /\ pc'[t] \in {"run_top", "run_finally"}
                  /\ generated'[t] = generated[t]
                  /\ task_queue' = task_queue
C17_EmptyHistoryNoOp == [][C17_EmptyHistoryStep]_vars

\* refine_tasks has returned the empty list without a generator call while
\* the queue holds a task and the history is empty
C17_Witness ==
    \E t \in Threads :
        /\ pc[t] = "return"
        /\ method[t] = "refine_tasks"
        /\ ~generated[t]
        /\ history = <<>>
        /\ task_queue # <<>>

\* C18: a refine_tasks call that finds the history non-empty asks the
\* generator and keeps the non-empty stripped segments of its text; each turn
\* of its loop appends one task to the queue, for the first segment not yet
\* used, pending and of priority 2 and with a fresh id, and leaves every
\* task already in the queue as it was; the call returns the ids of these
\* tasks in the order of the segments, and [] if no segment is non-empty.
C18_RefineStep ==
    \A t \in Threads :
        /\ (pc[t] = "idle" /\ method'[t] = "refine_tasks"
             /\ history # <<>>)
               => /\ generated'[t]
                  /\ task_queue' = task_queue
                  /\ IF pc'[t] = "rf_add"
                     THEN /\ paragraphs'[t] # <<>>
                          /\ \A k \in DOMAIN paragraphs'[t] :
                                 paragraphs'[t][k] # ""
                          /\ new_task_ids'[t] = <<>>
                     ELSE /\ pc'[t] = "return"
                          /\ ~ret'[t].raised
                          /\ ret'[t].value = <<>>
        /\ (pc[t] = "rf_add" /\ paragraphs'[t] # paragraphs[t])
               => /\ Len(task_queue') = Len(task_queue) + 1
                  /\ SubSeq(task_queue', 1, Len(task_queue)) = task_queue
                  /\ LET new == task_queue'[Len(task_queue')]
                     IN /\ new.objective = Head(paragraphs[t])
                        /\ new.objective # ""
                        /\ new.priority = 2
                        /\ new.status = "pending"
                        /\ new.id \notin IdsOf(task_queue)
                        /\ paragraphs'[t] = Tail(paragraphs[t])
                        /\ IF paragraphs'[t] # <<>>
                           THEN /\ pc'[t] = "rf_add"
                                /\ new_task_ids'[t] =
                                       Append(new_task_ids[t], new.id)
                           ELSE \/ in_run[t]
                                \/ /\ pc'[t] = "return"
                                   /\ ~ret'[t].raised
                                   /\ ret'[t].value =
                                          Append(new_task_ids[t], new.id)
C18_OneTaskPerSegment == [][C18_RefineStep]_vars

\* refine_tasks has returned two ids, of a task "text" and of a task "more"
\* that follows it in the queue, both of priority 2
C18_Witness ==
    \E t \in Threads :
        /\ pc[t] = "return"
        /\ method[t] = "refine_tasks"
        /\ Len(ret[t].value) = 2
        /\ \E i, j \in DOMAIN task_queue :
               /\ i < j
               /\ task_queue[i].id = ret[t].value[1]
               /\ task_queue[j].id = ret[t].value[2]
               /\ task_queue[i].objective = "text"
               /\ task_queue[j].objective = "more"
               /\ task_queue[i].priority = 2
               /\ task_queue[j].priority = 2

\* C19 (as claimed): while the scheduler is running, a call of a job's
\* function comes no earlier than interval - 1 seconds after the job's
\* registration, if it is the job's first call, and after the job's previous
\* call otherwise.
C19_FireStep ==
    \A j \in DOMAIN tasks :
        (j \in DOMAIN fired /\ fired'[j] # fired[j] /\ running)
            => clock - (IF fired[j] = NoTime THEN registered[j] ELSE fired[j])
                   >= tasks[j].interval - 1
C19_FiresEveryInterval == [][C19_FireStep]_vars

\* C20 (as claimed): a start() of a scheduler already running starts no
\* second dispatch loop: at most one thread is in _run_tasks.
C20_OneDispatchLoop == BagCardinality(dispatchers) <= 1

\* the number of threads of a bag that are at position p
CountAt(bag, p) ==
    BagCardinality([e \in {x \in BagToSet(bag) : x.pc = p} |-> bag[e]])
\* the turns the for loops of the dispatchers at index k or later still
\* have, two steps for each worker started and its ending
RECURSIVE ForTurns(_, _, _)
ForTurns(ds, n, k) ==
    IF k > n + 1 THEN 0
    ELSE BagCardinality([e \in {x \in BagToSet(ds) :
                                    x.pc = "for" /\ x.k = k} |-> ds[e]])
             * (2 * (n + 1 - k) + 3)
         + ForTurns(ds, n, k + 1)
\* steps the threads of the scheduler still have before they end, once
\* running is False and stays so
C21_Rank(ds, ws, n) ==
    ForTurns(ds, n, 1) + 2 * CountAt(ds, "sleep") + CountAt(ds, "while")
        + 3 * CountAt(ws, "call") + 2 * CountAt(ws, "sleep")
        + CountAt(ws, "while")

\* C21: while running is False and stays False, every step of a dispatch
\* loop or of a worker brings the threads nearer to their end (a loop at its
\* while test ends, a sleeper goes to its while test, a worker past its test
\* makes its one call), the number of calls still to come never grows, and a
\* stop() changes neither the threads nor the jobs.
C21_StoppedStep ==
    (~running /\ ~running')
        => /\ CountAt(workers', "call") <= CountAt(workers, "call")
           /\ (tasks' = tasks /\ <<dispatchers, workers>>' # <<dispatchers, workers>>)
                  => C21_Rank(dispatchers', workers', Len(tasks))
                         < C21_Rank(dispatchers, workers, Len(tasks))
           /\ (sched_calls' # sched_calls /\ tasks' = tasks)
                  => <<dispatchers, workers, fired>>' = <<dispatchers, workers, fired>>
C21_StopWindsDown == [][C21_StoppedStep]_vars

\* after a job has been called, stop() has ended the dispatch loop and every
\* worker
C21_Witness ==
    /\ ~running
    /\ dispatchers = EmptyBag
    /\ workers = EmptyBag
    /\ \E j \in DOMAIN fired : fired[j] # NoTime /\ fired[j] < clock

\* the threads of a bag at position p that have seen a stop()
OldAt(bag, p) ==
    BagCardinality([e \in {x \in BagToSet(bag) : x.pc = p /\ x.old}
                       |-> bag[e]])

\* C22 (as claimed): once the scheduler has been stopped, no dispatch loop
\* and no worker from before the stop passes its `while self.running` test
\* again, so after a restart only the new dispatch loop and its workers call
\* the jobs.
C22_RestartStep ==
    running'
        => /\ OldAt(workers', "call") <= OldAt(workers, "call")
           /\ OldAt(dispatchers', "for") <= OldAt(dispatchers, "for")
C22_NoLeftoverFiring == [][C22_RestartStep]_vars

\* C23 (as claimed): a call of a job's function, failing or not, ends no
\* thread: the worker that made the call lives on to sleep for the job's
\* interval and call again, and the dispatch loops and the other workers are
\* as they were.
C23_CallStep ==
    CountAt(workers', "call") < CountAt(workers, "call")
        => /\ BagCardinality(workers') = BagCardinality(workers)
           /\ dispatchers' = dispatchers
C24_LockNotHeldOutside ==
    /\ lock # NoLock => pc[lock] = "ex_mark"
    /\ \A t \in Threads : pc[t] = "ex_external" => lock # t

\* while one thread is in the external calls of its execute_task, another
\* has read the queue with get_tasks and got the task in progress
C24_Witness ==
    \E t, u \in Threads :
        /\ pc[t] = "ex_external"
        /\ pc[u] = "return"
        /\ method[u] = "get_tasks"
        /\ ret[u].value # <<>>
        /\ \E k \in DOMAIN ret[u].value :
               /\ ret[u].value[k].id = task[t]
               /\ ret[u].value[k].status = "in_progress"

\* C25 (as claimed): a task that is pending or in_progress has neither a
\* completed_at nor a result; a completed or failed task has both.
C25_SetIffTerminal ==
    \A k \in DOMAIN task_queue :
        IF task_queue[k].status \in Terminal
        THEN /\ task_queue[k].completed_at # NoTime
             /\ task_queue[k].result # None
        ELSE /\ task_queue[k].completed_at = NoTime
             /\ task_queue[k].result = None

\* C26: execute_task(task_id) with the id of a pending task refers to that
\* task from its search on, whatever the priorities of the other pending
\* tasks; its write of in_progress and its final write change the dict of
\* that task and of no other.
C26_ByIdStep ==
    \A t \in Threads :
        /\ (pc[t] = "idle" /\ method'[t] = "execute_task"
             /\ arg_id'[t] # NoId
             /\ \E k \in DOMAIN task_queue :
                    /\ task_queue[k].id = arg_id'[t]
                    /\ task_queue[k].status = "pending")
               => /\ pc'[t] = "ex_mark"
                  /\ task'[t] = arg_id'[t]
                  /\ task_queue' = task_queue
        /\ (pc[t] \in {"ex_mark", "ex_external"} /\ pc'[t] # pc[t]
             /\ arg_id[t] # NoId)
               => /\ task[t] = arg_id[t]
                  /\ Len(task_queue') = Len(task_queue)
                  /\ \A k \in DOMAIN task_queue :
                         IF task_queue[k].id = arg_id[t]
                         THEN task_queue'[k].status # task_queue[k].status
                         ELSE task_queue'[k] = task_queue[k]
C26_ClaimsExactlyThatTask == [][C26_ByIdStep]_vars

\* execute_task(task_id) has put its task in progress while a pending task
\* of higher priority is in the queue
C26_Witness ==
    \E t \in Threads :
        /\ pc[t] = "ex_external"
        /\ arg_id[t] # NoId
        /\ task[t] = arg_id[t]
        /\ TaskOf(task_queue, task[t]).status = "in_progress"
        /\ \E k \in DOMAIN task_queue :
               /\ task_queue[k].status = "pending"
               /\ task_queue[k].priority
                      > TaskOf(task_queue, task[t]).priority

\* C27 (as claimed): of the jobs registered in the current second whose
\* workers have been started, none is called while a job registered before
\* it has a worker with the job's first call still to make.
C27_OrderStep ==
    (running /\ running') =>
        \A w \in BagToSet(workers) :
            (w.pc = "call" /\ CopiesIn(w, workers') < CopiesIn(w, workers))
                => ~\E v \in BagToSet(workers) :
                       /\ v.job < w.job
                       /\ registered[v.job] = clock
                       /\ registered[w.job] = clock
                       /\ fired[v.job] = NoTime
                       /\ v.pc \in {"while", "call"}
C27_RegistrationOrder == [][C27_OrderStep]_vars

\* C28: a worker that has passed its running test can call its job at once,
\* and a dispatch loop inside its for loop can start the next worker,
\* whichever workers are inside the functions of their jobs at the time.
C28_NotDelayed ==
    /\ \A w \in BagToSet(workers) : w.pc = "call" => ENABLED WorkerCallOf(w)
    /\ (/\ \E d \in BagToSet(dispatchers) : d.pc = "for"
        /\ BagCardinality(workers) < MaxWorkers)
           => ENABLED DispatchFor

\* a job has been called in this second while the worker of another job has
\* been inside that job's function since an earlier second
C28_Witness ==
    \E v \in BagToSet(workers) :
        /\ v.pc = "in_call"
        /\ fired[v.job] < clock
        /\ \E j \in DOMAIN tasks :
               /\ j # v.job
               /\ tasks[j].function = "returns"
               /\ fired[j] = clock

\* C29: every task that is in_progress is the task of a thread that is inside
\* execute_task, after its write of in_progress and before its final write,
\* and that thread can go on as soon as the lock is free; its next step
\* writes completed or failed. So no task is in_progress once the call that
\* claimed it has returned.
C29_InProgressHasOwner ==
    \A k \in DOMAIN task_queue :
        task_queue[k].status = "in_progress"
            => \E t \in Threads :
                   /\ task[t] = task_queue[k].id
                   /\ pc[t] = "ex_external"
                   /\ lock = NoLock => ENABLED ExecuteBody(t)

\* execute_task has returned the failure of its task, and the task is failed
C29_Witness ==
    \E t \in Threads :
        /\ pc[t] = "return"
        /\ method[t] = "execute_task"
        /\ ~ret[t].raised
        /\ ret[t].value.error # "No pending tasks"
        /\ ret[t].value.error # "Task not found or not pending"
        /\ ~ret[t].value.success
        /\ \E k \in DOMAIN task_queue :
               /\ task_queue[k].id = ret[t].value.task_id
               /\ task_queue[k].status = "failed"

\* C30 (as claimed): the live workers are at most one per registered job.
C30_OneWorkerPerJob ==
    /\ BagCardinality(workers) <= Len(tasks)
    /\ \A j \in DOMAIN tasks :
           BagCardinality([w \in {x \in BagToSet(workers) : x.job = j}
                              |-> workers[w]]) <= 1

====
